---- MODULE Spec2Model ----
(***************************************************************************)
(* Model of goto's storage layer (src/goto/storage.py): the config home,   *)
(* the TOML documents kept in it, the settings document and the profile    *)
(* operations.                                                             *)
(*                                                                         *)
(* Strings are sequences of one-character strings, so that                 *)
(* str.startswith, os.path.join and '{}.toml'.format(name) are computed,   *)
(* not assumed.  A filesystem value fs is a record [xdg_home, dirs,        *)
(* files]: xdg_home is the value of XDG_CONFIG_HOME (None when unset),     *)
(* dirs is the set of the directories that exist, files maps the path of   *)
(* every file that exists to its text.                                     *)
(***************************************************************************)
EXTENDS Integers, Sequences, FiniteSets, TLC

VARIABLES xdg_home, dirs, files, last

vars == <<xdg_home, dirs, files, last>>

(***************************************************************************)
(* Bounds and input sets.                                                  *)
(***************************************************************************)
NumNames == 2

Digits == <<"1", "2", "3", "4", "5", "6", "7", "8", "9">>

Default == <<"d", "e", "f", "a", "u", "l", "t">>

\* the i-th ordinary profile name: "p1", "p2", ...
Generated(i) == <<"p", Digits[i]>>

\* "_setting", the name whose document is the settings file
Setting == <<"_", "s", "e", "t", "t", "i", "n", "g">>

\* "_p1", a reserved name that is not the settings file
Hidden == <<"_">> \o Generated(1)

NameInputs == {Default, Setting, Hidden} \cup {Generated(i) : i \in 1..NumNames}

\* the names whose documents are read and written
DocNameInputs == {Default, Setting, Hidden, Generated(1), Generated(2)}

(***************************************************************************)
(* Python values: a str, a list of str, and None (returned by procedures). *)
(***************************************************************************)
Str(s) == [kind |-> "str", items |-> <<s>>]

List(l) == [kind |-> "list", items |-> l]

None == [kind |-> "none", items |-> <<>>]

EmptyDoc == <<>>

abcd == <<"a", "b", "c", "d">>

\* { 'test': 'abcd' }, the document of test_get_updated_profile
DocTest == "test" :> Str(abcd)

DocInputs == {EmptyDoc, DocTest}

\* str.startswith
startswith(s, prefix) ==
    /\ Len(s) >= Len(prefix)
    /\ SubSeq(s, 1, Len(prefix)) = prefix

\* x in list
Contains(l, x) == \E i \in 1..Len(l) : l[i] = x

\* dict.get(key, default)
dict_get(data, key, default) == IF key \in DOMAIN data THEN data[key] ELSE default

\* list.remove(x): removes the first occurrence
RECURSIVE list_remove(_, _)
list_remove(l, x) ==
    IF l = <<>> THEN <<>>
    ELSE IF Head(l) = x THEN Tail(l)
    ELSE <<Head(l)>> \o list_remove(Tail(l), x)

\* the truth value of a str or None in a condition
truthy(v) == v # None /\ v.items[1] # <<>>

(***************************************************************************)
(* toml.dump / toml.load: a document is written as one line per key, and   *)
(* read back by folding the lines into a mapping.  The empty text is the   *)
(* empty file.                                                             *)
(***************************************************************************)
EmptyText == <<>>

RECURSIVE toml_dump(_)
toml_dump(data) ==
    IF DOMAIN data = {} THEN EmptyText
    ELSE LET k == CHOOSE key \in DOMAIN data : TRUE
             rest == [key \in DOMAIN data \ {k} |-> data[key]]
         IN  <<[key |-> k, value |-> data[k]]>> \o toml_dump(rest)

RECURSIVE toml_load(_)
toml_load(text) ==
    IF text = EmptyText THEN EmptyDoc
    ELSE (Head(text).key :> Head(text).value) @@ toml_load(Tail(text))

(***************************************************************************)
(* Outcome of a call: the filesystem it leaves, the exception it raised    *)
(* ("none" when it returned), the message of a StorageException, and the   *)
(* returned value (ret for a str or a list, doc for a document).           *)
(***************************************************************************)
MsgAlreadyExists == "{} is a profile that already exists"

MsgUnderscore == "{} - you cannot start profiles with _"

MsgDefault == "You cannot remove default settings"

MsgNotExists == "{} - not a profile that exists"

MsgInvalidName == "{} is an invalid name. Cannot start with _"

Return(fs, ret, doc) ==
    [fs |-> fs, exc |-> "none", msg |-> "", ret |-> ret, doc |-> doc]

Raise(fs, exc, msg) ==
    [fs |-> fs, exc |-> exc, msg |-> msg, ret |-> None, doc |-> EmptyDoc]

\* the str a call returned
PathOf(r) == r.ret.items[1]

(***************************************************************************)
(* Paths.                                                                  *)
(***************************************************************************)
Root == <<"/">>

\* os.path.expanduser('~')
UserHome == <<"/", "h">>

\* the directory the tests put in XDG_CONFIG_HOME
XdgBase == <<"/", "x">>

GotoCd == <<"g", "o", "t", "o", "-", "c", "d">>

\* os.path.join of two components
join(a, b) ==
    IF startswith(b, <<"/">>) THEN b
    ELSE IF a = <<>> \/ a[Len(a)] = "/" THEN a \o b
    ELSE a \o <<"/">> \o b

dot_config == join(UserHome, <<".", "c", "o", "n", "f", "i", "g">>)

dot_goto == join(UserHome, <<".", "g", "o", "t", "o", "-", "c", "d">>)

\* the directory that must exist for path to be created
Parent(path) ==
    LET slashes == {i \in 1..Len(path) : path[i] = "/"}
        cut == CHOOSE i \in slashes : \A j \in slashes : j <= i
    IN  IF slashes = {} THEN <<>>
        ELSE IF cut = 1 THEN Root
        ELSE SubSeq(path, 1, cut - 1)

\* '{}.toml'.format(name)
TomlName(name) == name \o <<".", "t", "o", "m", "l">>

\* '_setting.toml'
SettingFname == <<"_", "s", "e", "t", "t", "i", "n", "g", ".", "t", "o", "m", "l">>

(***************************************************************************)
(* Path resolver and document store.                                       *)
(***************************************************************************)
\* util.cond: the value of the first pair whose condition holds
RECURSIVE cond(_)
cond(pairs) ==
    IF Head(pairs)[1] THEN Head(pairs)[2] ELSE cond(Tail(pairs))

\* Path(dirpath).mkdir(exist_ok=True): the parent has to exist
touch_directory(fs, dirpath) ==
    IF dirpath \in fs.dirs THEN Return(fs, None, EmptyDoc)
    ELSE IF Parent(dirpath) \notin fs.dirs THEN Raise(fs, "FileNotFoundError", "")
    ELSE Return([fs EXCEPT !.dirs = @ \cup {dirpath}], None, EmptyDoc)

\* the tuple handed to util.cond is built first: join(xdg_home, 'goto-cd')
\* raises TypeError when XDG_CONFIG_HOME is unset
home_path(fs) ==
    IF fs.xdg_home = None THEN Raise(fs, "TypeError", "")
    ELSE Return(fs,
                Str(cond(<< <<truthy(fs.xdg_home), join(fs.xdg_home.items[1], GotoCd)>>,
                            <<dot_config \in fs.dirs, join(dot_config, GotoCd)>>,
                            <<TRUE, dot_goto>> >>)),
                EmptyDoc)

get_config_home(fs) ==
    LET touched(hp, made) ==
            IF made.exc # "none" THEN made
            ELSE Return(made.fs, hp.ret, EmptyDoc)
        resolved(hp) ==
            IF hp.exc # "none" THEN hp
            ELSE touched(hp, touch_directory(hp.fs, PathOf(hp)))
    IN  resolved(home_path(fs))

\* open(fpath, 'w') in place of 'a': empties a file that exists
_touch_config_file_truncates(fs, fpath) ==
    [fs EXCEPT !.files = (fpath :> EmptyText) @@ fs.files]

\* open(fpath, 'a'): creates the file empty if it is absent
_touch_config_file(fs, fpath) ==
    IF fpath \in DOMAIN fs.files THEN fs
    ELSE [fs EXCEPT !.files = (fpath :> EmptyText) @@ fs.files]

_retrieve_config(fs, fname) ==
    LET joined(h2) ==
            IF h2.exc # "none" THEN h2
            ELSE LET fpath == join(PathOf(h2), fname)
                 IN  Return(_touch_config_file(h2.fs, fpath), Str(fpath), EmptyDoc)
        touched(made) ==
            IF made.exc # "none" THEN made
            ELSE joined(get_config_home(made.fs))
        resolved(h1) ==
            IF h1.exc # "none" THEN h1
            ELSE touched(touch_directory(h1.fs, PathOf(h1)))
    IN  resolved(get_config_home(fs))

\* open(fpath, 'r') raises IOError when the file is absent
_read_config_file(fs, fpath) ==
    IF fpath \in DOMAIN fs.files
    THEN [exc |-> "none", ret |-> toml_load(fs.files[fpath])]
    ELSE [exc |-> "IOError", ret |-> EmptyDoc]

\* write_file that opens the file for writing and dumps nothing
write_file_empty(fs, fpath, data) ==
    [fs EXCEPT !.files = (fpath :> EmptyText) @@ fs.files]

\* open(fpath, 'w'); toml.dump(data, fhandle)
write_file(fs, fpath, data) ==
    [fs EXCEPT !.files = (fpath :> toml_dump(data)) @@ fs.files]

(***************************************************************************)
(* Settings manager.                                                       *)
(***************************************************************************)
default_values ==
    ("current_profile" :> Str(Default)) @@ ("profiles" :> List(<<Default>>))

_update_settings(fs, data) ==
    LET resolved(h) ==
            IF h.exc # "none" THEN h
            ELSE Return(write_file(h.fs, join(PathOf(h), SettingFname), data),
                        None, EmptyDoc)
    IN  resolved(get_config_home(fs))

\* _get_settings that hands out the defaults without writing them
_get_settings_unsaved(fs) ==
    LET resolved(h) ==
            IF h.exc # "none" THEN h
            ELSE LET fpath == join(PathOf(h), SettingFname)
                 IN  Return(h.fs, None,
                            IF fpath \notin DOMAIN h.fs.files
                            THEN default_values
                            ELSE _read_config_file(h.fs, fpath).ret)
    IN  resolved(get_config_home(fs))

\* the settings are returned in doc
_get_settings(fs) ==
    LET saved(fpath, u) ==
            IF u.exc # "none" THEN u
            ELSE Return(u.fs, None, _read_config_file(u.fs, fpath).ret)
        resolved(h) ==
            IF h.exc # "none" THEN h
            ELSE saved(join(PathOf(h), SettingFname),
                       IF join(PathOf(h), SettingFname) \notin DOMAIN h.fs.files
                       THEN _update_settings(h.fs, default_values)
                       ELSE Return(h.fs, None, EmptyDoc))
    IN  resolved(get_config_home(fs))

get_active_profile_name(fs) ==
    LET loaded(s) ==
            IF s.exc # "none" THEN s
            ELSE Return(s.fs, dict_get(s.doc, "current_profile", Str(Default)), EmptyDoc)
    IN  loaded(_get_settings(fs))

list_profiles(fs) ==
    LET loaded(s) ==
            IF s.exc # "none" THEN s
            ELSE Return(s.fs, dict_get(s.doc, "profiles", List(<<>>)), EmptyDoc)
    IN  loaded(_get_settings(fs))

(***************************************************************************)
(* Profile manager.                                                        *)
(***************************************************************************)
\* add_profile without the membership test
add_profile_unchecked(fs, name) ==
    LET loaded(s) ==
            LET data == s.doc
            IN  IF s.exc # "none" THEN s
                ELSE IF "profiles" \notin DOMAIN data
                THEN Raise(s.fs, "KeyError", "profiles")
                ELSE IF startswith(name, <<"_">>)
                THEN Raise(s.fs, "StorageException", MsgUnderscore)
                ELSE IF name = Default
                THEN Raise(s.fs, "StorageException", MsgDefault)
                ELSE LET appended == List(Append(data["profiles"].items, name))
                     IN  _update_settings(s.fs, [data EXCEPT !["profiles"] = appended])
    IN  loaded(_get_settings(fs))

\* add_profile without the test of the reserved prefix
add_profile_any_prefix(fs, name) ==
    LET loaded(s) ==
            LET data == s.doc
            IN  IF s.exc # "none" THEN s
                ELSE IF "profiles" \notin DOMAIN data
                THEN Raise(s.fs, "KeyError", "profiles")
                ELSE IF Contains(data["profiles"].items, name)
                THEN Raise(s.fs, "StorageException", MsgAlreadyExists)
                ELSE IF name = Default
                THEN Raise(s.fs, "StorageException", MsgDefault)
                ELSE LET appended == List(Append(data["profiles"].items, name))
                     IN  _update_settings(s.fs, [data EXCEPT !["profiles"] = appended])
    IN  loaded(_get_settings(fs))

add_profile(fs, name) ==
    LET loaded(s) ==
            LET data == s.doc
            IN  IF s.exc # "none" THEN s
                ELSE IF "profiles" \notin DOMAIN data
                THEN Raise(s.fs, "KeyError", "profiles")
                ELSE IF Contains(data["profiles"].items, name)
                THEN Raise(s.fs, "StorageException", MsgAlreadyExists)
                ELSE IF startswith(name, <<"_">>)
                THEN Raise(s.fs, "StorageException", MsgUnderscore)
                ELSE IF name = Default
                THEN Raise(s.fs, "StorageException", MsgDefault)
                ELSE LET appended == List(Append(data["profiles"].items, name))
                     IN  _update_settings(s.fs, [data EXCEPT !["profiles"] = appended])
    IN  loaded(_get_settings(fs))

\* remove_profile that rewrites the settings whether or not name is listed
remove_profile_unchecked(fs, name) ==
    LET loaded(s) ==
            LET data == s.doc
            IN  IF s.exc # "none" THEN s
                ELSE IF "profiles" \notin DOMAIN data
                THEN Raise(s.fs, "KeyError", "profiles")
                ELSE LET removed == List(list_remove(data["profiles"].items, name))
                     IN  _update_settings(s.fs, [data EXCEPT !["profiles"] = removed])
    IN  loaded(_get_settings(fs))

\* remove_profile that also deletes the document of the profile
remove_profile_and_file(fs, name) ==
    LET deleted(u) ==
            IF u.exc # "none" THEN u
            ELSE LET fpath == join(PathOf(get_config_home(u.fs)), TomlName(name))
                     kept == [f \in DOMAIN u.fs.files \ {fpath} |-> u.fs.files[f]]
                 IN  Return([u.fs EXCEPT !.files = kept], None, EmptyDoc)
        loaded(s) ==
            LET data == s.doc
            IN  IF s.exc # "none" THEN s
                ELSE IF "profiles" \notin DOMAIN data
                THEN Raise(s.fs, "KeyError", "profiles")
                ELSE IF ~Contains(data["profiles"].items, name)
                THEN Raise(s.fs, "StorageException", MsgNotExists)
                ELSE LET removed == List(list_remove(data["profiles"].items, name))
                     IN  deleted(_update_settings(s.fs,
                                                  [data EXCEPT !["profiles"] = removed]))
    IN  loaded(_get_settings(fs))

\* remove_profile that falls back to "default" when the active profile goes
remove_profile_resets_current(fs, name) ==
    LET loaded(s) ==
            LET data == s.doc
            IN  IF s.exc # "none" THEN s
                ELSE IF "profiles" \notin DOMAIN data
                THEN Raise(s.fs, "KeyError", "profiles")
                ELSE IF ~Contains(data["profiles"].items, name)
                THEN Raise(s.fs, "StorageException", MsgNotExists)
                ELSE LET removed == List(list_remove(data["profiles"].items, name))
                         current ==
                            IF dict_get(data, "current_profile", Str(Default)) = Str(name)
                            THEN Str(Default)
                            ELSE dict_get(data, "current_profile", Str(Default))
                     IN  _update_settings(s.fs, ("profiles" :> removed) @@
                                                ("current_profile" :> current) @@ data)
    IN  loaded(_get_settings(fs))

remove_profile(fs, name) ==
    LET loaded(s) ==
            LET data == s.doc
            IN  IF s.exc # "none" THEN s
                ELSE IF "profiles" \notin DOMAIN data
                THEN Raise(s.fs, "KeyError", "profiles")
                ELSE IF ~Contains(data["profiles"].items, name)
                THEN Raise(s.fs, "StorageException", MsgNotExists)
                ELSE LET removed == List(list_remove(data["profiles"].items, name))
                     IN  _update_settings(s.fs, [data EXCEPT !["profiles"] = removed])
    IN  loaded(_get_settings(fs))

\* set_current_profile that writes any name into the settings
set_current_profile_unchecked(fs, name) ==
    LET loaded(s) ==
            IF s.exc # "none" THEN s
            ELSE _update_settings(s.fs, ("current_profile" :> Str(name)) @@ s.doc)
    IN  loaded(_get_settings(fs))

\* data['current_profile'] = name changes the local mapping only: the
\* function returns without writing it back
set_current_profile(fs, name) ==
    LET loaded(s) ==
            IF s.exc # "none" THEN s
            ELSE IF startswith(name, <<"_">>)
            THEN Raise(s.fs, "StorageException", MsgUnderscore)
            ELSE Return(s.fs, None, EmptyDoc)
    IN  loaded(_get_settings(fs))

\* update_named_profile that merges data into what the file holds
update_named_profile_merge(fs, name, data) ==
    LET resolved(h) ==
            IF h.exc # "none" THEN h
            ELSE LET config_path == join(PathOf(h), TomlName(name))
                     old == _read_config_file(h.fs, config_path).ret
                 IN  Return(write_file(h.fs, config_path, data @@ old), None, EmptyDoc)
    IN  resolved(get_config_home(fs))

\* update_named_profile that also enters name in the profiles list
update_named_profile_registers(fs, name, data) ==
    LET resolved(h) ==
            IF h.exc # "none" THEN h
            ELSE LET config_path == join(PathOf(h), TomlName(name))
                     written == write_file(h.fs, config_path, data)
                 IN  Return(add_profile(written, name).fs, None, EmptyDoc)
    IN  resolved(get_config_home(fs))

update_named_profile(fs, name, data) ==
    LET resolved(h) ==
            IF h.exc # "none" THEN h
            ELSE LET config_path == join(PathOf(h), TomlName(name))
                 IN  Return(write_file(h.fs, config_path, data), None, EmptyDoc)
    IN  resolved(get_config_home(fs))

\* get_named_profile that reads any name
get_named_profile_unguarded(fs, name, public_file) ==
    LET retrieved(r) ==
            IF r.exc # "none" THEN r
            ELSE LET read == _read_config_file(r.fs, PathOf(r))
                 IN  IF read.exc = "IOError"
                     THEN Return(write_file(r.fs, PathOf(r), EmptyDoc), None, EmptyDoc)
                     ELSE Return(r.fs, None, read.ret)
    IN  retrieved(_retrieve_config(fs, TomlName(name)))

\* get_named_profile that reads without creating the file
get_named_profile_no_create(fs, name, public_file) ==
    LET resolved(h) ==
            IF h.exc # "none" THEN h
            ELSE Return(h.fs, None,
                        _read_config_file(h.fs, join(PathOf(h), TomlName(name))).ret)
    IN  IF public_file /\ startswith(name, <<"_">>)
        THEN Raise(fs, "StorageException", MsgInvalidName)
        ELSE resolved(get_config_home(fs))

get_named_profile(fs, name, public_file) ==
    LET retrieved(r) ==
            IF r.exc # "none" THEN r
            ELSE LET read == _read_config_file(r.fs, PathOf(r))
                 IN  IF read.exc = "IOError"
                     THEN Return(write_file(r.fs, PathOf(r), EmptyDoc), None, EmptyDoc)
                     ELSE Return(r.fs, None, read.ret)
    IN  IF public_file /\ startswith(name, <<"_">>)
        THEN Raise(fs, "StorageException", MsgInvalidName)
        ELSE retrieved(_retrieve_config(fs, TomlName(name)))

get_default_profile(fs) == get_named_profile(fs, Default, TRUE)

update_default_profile(fs, data) == update_named_profile(fs, Default, data)

(***************************************************************************)
(* Teleport manager.  A profile document keeps its teleports under the     *)
(* key 'teleports', a table from alias to absolute directory path; the     *)
(* table is the sequence alias, path, alias, path, ... in insertion order. *)
(* The functions work on the document of the active profile.               *)
(***************************************************************************)
Table(t) == [kind |-> "table", items |-> t]

\* the process's working directory
Cwd == UserHome

\* os.path.abspath for "/...", ".", "./" and "./..."
abspath(path) ==
    IF startswith(path, <<"/">>) THEN path
    ELSE IF path \in {<<".">>, <<".", "/">>} THEN Cwd
    ELSE IF startswith(path, <<".", "/">>) THEN join(Cwd, SubSeq(path, 3, Len(path)))
    ELSE join(Cwd, path)

\* the aliases of a table, in order
Aliases(t) == [i \in 1..(Len(t) \div 2) |-> t[2 * i - 1]]

\* the path of an alias of the table
Target(t, alias) == t[2 * (CHOOSE i \in 1..(Len(t) \div 2) : t[2 * i - 1] = alias)]

\* teleports[alias] = path
Upsert(t, alias, path) ==
    IF Contains(Aliases(t), alias)
    THEN [i \in 1..Len(t) |-> IF i % 2 = 0 /\ t[i - 1] = alias THEN path ELSE t[i]]
    ELSE t \o <<alias, path>>

\* del teleports[alias]
RECURSIVE Delete(_, _)
Delete(t, alias) ==
    IF t = <<>> THEN <<>>
    ELSE IF t[1] = alias THEN SubSeq(t, 3, Len(t))
    ELSE <<t[1], t[2]>> \o Delete(SubSeq(t, 3, Len(t)), alias)

\* the document of the active profile, in doc, and its name, in ret
_active_profile(fs) ==
    LET read(a, p) ==
            IF p.exc # "none" THEN p
            ELSE Return(p.fs, a.ret, p.doc)
        named(a) ==
            IF a.exc # "none" THEN a
            ELSE read(a, get_named_profile(a.fs, PathOf(a), TRUE))
    IN  named(get_active_profile_name(fs))

list_teleports(fs) ==
    LET active(p) ==
            IF p.exc # "none" THEN p
            ELSE Return(p.fs,
                        List(Aliases(dict_get(p.doc, "teleports", Table(<<>>)).items)),
                        EmptyDoc)
    IN  active(_active_profile(fs))

set_teleport(fs, alias, target_dir) ==
    LET active(p) ==
            IF p.exc # "none" THEN p
            ELSE LET teleports == dict_get(p.doc, "teleports", Table(<<>>)).items
                     updated == Table(Upsert(teleports, alias, abspath(target_dir)))
                 IN  update_named_profile(p.fs, PathOf(p),
                                          ("teleports" :> updated) @@ p.doc)
    IN  IF alias = <<>> THEN Raise(fs, "StorageException", "InvalidName")
        ELSE IF abspath(target_dir) \notin fs.dirs
        THEN Raise(fs, "StorageException", "TargetNotFound")
        ELSE active(_active_profile(fs))

remove_teleport(fs, alias) ==
    LET active(p) ==
            IF p.exc # "none" THEN p
            ELSE LET teleports == dict_get(p.doc, "teleports", Table(<<>>)).items
                 IN  IF ~Contains(Aliases(teleports), alias)
                     THEN Raise(p.fs, "StorageException", "NotFound")
                     ELSE update_named_profile(p.fs, PathOf(p),
                              ("teleports" :> Table(Delete(teleports, alias))) @@ p.doc)
    IN  active(_active_profile(fs))

get_teleport_target(fs, alias) ==
    LET active(p) ==
            IF p.exc # "none" THEN p
            ELSE LET teleports == dict_get(p.doc, "teleports", Table(<<>>)).items
                 IN  IF ~Contains(Aliases(teleports), alias)
                     THEN Raise(p.fs, "StorageException", "NotFound")
                     ELSE Return(p.fs, Str(Target(teleports, alias)), EmptyDoc)
    IN  active(_active_profile(fs))

(***************************************************************************)
(* The state machine: a fresh config home, then any sequence of calls of   *)
(* the public functions.  last records the most recent call, whether the   *)
(* file it works on existed before the call, and its outcome.  The         *)
(* environment is the one of the tests: XDG_CONFIG_HOME names an existing  *)
(* directory, in which the config home has not been created yet.           *)
(***************************************************************************)
FS == [xdg_home |-> xdg_home, dirs |-> dirs, files |-> files]

\* the filesystem with the directories d and the files f
FSof(d, f) == [xdg_home |-> xdg_home, dirs |-> d, files |-> f]

Call(op, name, data, fname, r) ==
    /\ xdg_home' = xdg_home
    /\ dirs' = r.fs.dirs
    /\ files' = r.fs.files
    /\ last' = [op |-> op, name |-> name, data |-> data,
                existed |-> /\ home_path(FS).exc = "none"
                            /\ join(PathOf(home_path(FS)), fname) \in DOMAIN files,
                exc |-> r.exc, msg |-> r.msg, ret |-> r.ret, doc |-> r.doc]

NoCall ==
    [op |-> "init", name |-> <<>>, data |-> EmptyDoc, existed |-> FALSE,
     exc |-> "none", msg |-> "", ret |-> None, doc |-> EmptyDoc]

Init ==
    /\ xdg_home = Str(XdgBase)
    /\ dirs = {Root, UserHome, XdgBase}
    /\ files = <<>>
    /\ last = NoCall

GetConfigHome ==
    Call("get_config_home", <<>>, EmptyDoc, SettingFname, get_config_home(FS))

GetActiveProfileName ==
    Call("get_active_profile_name", <<>>, EmptyDoc, SettingFname, get_active_profile_name(FS))

ListProfiles ==
    Call("list_profiles", <<>>, EmptyDoc, SettingFname, list_profiles(FS))

AddProfile ==
    \E name \in NameInputs :
        Call("add_profile", name, EmptyDoc, SettingFname, add_profile(FS, name))

RemoveProfile ==
    \E name \in NameInputs :
        Call("remove_profile", name, EmptyDoc, SettingFname, remove_profile(FS, name))

SetCurrentProfile ==
    \E name \in NameInputs :
        Call("set_current_profile", name, EmptyDoc, SettingFname, set_current_profile(FS, name))

GetDefaultProfile ==
    Call("get_default_profile", Default, EmptyDoc, TomlName(Default), get_default_profile(FS))

UpdateDefaultProfile ==
    \E data \in DocInputs :
        Call("update_default_profile", Default, data, TomlName(Default), update_default_profile(FS, data))

\* called with the names of profiles, those the public read accepts
UpdateNamedProfile ==
    \E name \in {n \in DocNameInputs : ~startswith(n, <<"_">>)}, data \in DocInputs :
        Call("update_named_profile", name, data, TomlName(name), update_named_profile(FS, name, data))

\* the public read: public_file keeps its default
GetNamedProfile ==
    \E name \in DocNameInputs :
        Call("get_named_profile", name, EmptyDoc, TomlName(name), get_named_profile(FS, name, TRUE))

Next ==
    \/ GetConfigHome
    \/ GetActiveProfileName
    \/ ListProfiles
    \/ AddProfile
    \/ RemoveProfile
    \/ SetCurrentProfile
    \/ GetDefaultProfile
    \/ UpdateDefaultProfile
    \/ UpdateNamedProfile
    \/ GetNamedProfile

Spec == Init /\ [][Next]_vars

(***************************************************************************)
(* The path resolver on its own: any value of XDG_CONFIG_HOME (unset, ''   *)
(* or a directory name) and any set of existing directories in which a     *)
(* directory has its parent; then calls of get_config_home and             *)
(* touch_directory.                                                        *)
(***************************************************************************)
XdgInputs == {None, Str(<<>>), Str(XdgBase)}

DirInputs ==
    {XdgBase, join(XdgBase, GotoCd), dot_config, join(dot_config, GotoCd), dot_goto}

InitHome ==
    /\ xdg_home \in XdgInputs
    /\ \E made \in SUBSET DirInputs :
          /\ \A d \in made : Parent(d) \in made \cup {Root, UserHome}
          /\ dirs = {Root, UserHome} \cup made
    /\ files = <<>>
    /\ last = NoCall

TouchDirectory ==
    \E dirpath \in DirInputs :
        Call("touch_directory", dirpath, EmptyDoc, SettingFname, touch_directory(FS, dirpath))

NextHome ==
    \/ GetConfigHome
    \/ TouchDirectory

SpecHome == InitHome /\ [][NextHome]_vars

(***************************************************************************)
(* The store when update_named_profile is given any name, "_setting"       *)
(* included: the function builds the path from the name and writes.  A     *)
(* document written over the settings file may itself be a settings        *)
(* document.                                                               *)
(***************************************************************************)
\* { 'current_profile': 'p1', 'profiles': ['default', 'p1'] }
DocSettings ==
    ("current_profile" :> Str(Generated(1))) @@
    ("profiles" :> List(<<Default, Generated(1)>>))

RawDocInputs(name) == IF name = Setting THEN {DocTest, DocSettings} ELSE {DocTest}

UpdateRawProfile ==
    \E name \in DocNameInputs :
        \E data \in RawDocInputs(name) :
            Call("update_named_profile", name, data, TomlName(name),
                 update_named_profile(FS, name, data))

NextRaw ==
    \/ UpdateRawProfile
    \/ AddProfile
    \/ RemoveProfile
    \/ ListProfiles
    \/ GetActiveProfileName

SpecRaw == Init /\ [][NextRaw]_vars

(***************************************************************************)
(* The teleports of a fresh config home: any sequence of calls of the      *)
(* teleport functions.  The target of a call is recorded in data.          *)
(***************************************************************************)
AliasInputs == {<<>>, <<"a">>, abcd}

\* './' and '/x' exist, './no' does not
TargetInputs == {<<".", "/">>, XdgBase, <<".", "/", "n", "o">>}

TargetArg(target_dir) == "target_dir" :> Str(target_dir)

ListTeleports ==
    Call("list_teleports", <<>>, EmptyDoc, TomlName(Default), list_teleports(FS))

SetTeleport ==
    \E alias \in AliasInputs, target_dir \in TargetInputs :
        Call("set_teleport", alias, TargetArg(target_dir), TomlName(Default),
             set_teleport(FS, alias, target_dir))

RemoveTeleport ==
    \E alias \in AliasInputs :
        Call("remove_teleport", alias, EmptyDoc, TomlName(Default), remove_teleport(FS, alias))

GetTeleportTarget ==
    \E alias \in AliasInputs :
        Call("get_teleport_target", alias, EmptyDoc, TomlName(Default),
             get_teleport_target(FS, alias))

NextTeleport ==
    \/ ListTeleports
    \/ SetTeleport
    \/ RemoveTeleport
    \/ GetTeleportTarget

SpecTeleport == Init /\ [][NextTeleport]_vars

(***************************************************************************)
(* Vocabulary of the properties.  The code raises one exception class;     *)
(* the kind of a failure is told by the raise statement that produced it.  *)
(***************************************************************************)
InvalidName(r) ==
    /\ r.exc = "StorageException"
    /\ r.msg \in {MsgUnderscore, MsgDefault, MsgInvalidName}

AlreadyExists(r) == r.exc = "StorageException" /\ r.msg = MsgAlreadyExists

NotFound(r) == r.exc = "StorageException" /\ r.msg = MsgNotExists

Reserved(name) == startswith(name, <<"_">>)

\* what list_profiles() and get_active_profile_name() return in a filesystem
Listed(d, f) == list_profiles(FSof(d, f)).ret.items

Active(d, f) == get_active_profile_name(FSof(d, f)).ret

\* the config home of the tests and the files in it
TestHome == join(XdgBase, GotoCd)

SettingPath == join(TestHome, SettingFname)

ProfilePath(name) == join(TestHome, TomlName(name))

\* the profiles list as persisted in the settings file, once that exists
Persisted(f) == dict_get(toml_load(f[SettingPath]), "profiles", List(<<>>)).items

(***************************************************************************)
(* C1: in every reachable state remove_profile("default") fails with       *)
(* InvalidName and leaves the profiles list unchanged, "default" included. *)
(* The code has no such check: it removes "default".                       *)
(***************************************************************************)
C1_RemoveDefaultFails ==
    [][last'.op = "remove_profile" /\ last'.name = Default
        => /\ InvalidName(last')
           /\ Listed(dirs', files') = Listed(dirs, files)
           /\ Contains(Persisted(files'), Default)]_vars

(***************************************************************************)
(* C2: for every name not starting with '_', set_current_profile(name)     *)
(* sets current_profile to name and persists it, so that                   *)
(* get_active_profile_name() afterwards returns name.  The code changes    *)
(* only its local copy of the settings.                                    *)
(***************************************************************************)
C2_SetCurrentProfilePersists ==
    [][last'.op = "set_current_profile" /\ ~Reserved(last'.name)
        => /\ last'.exc = "none"
           /\ Active(dirs', files') = Str(last'.name)]_vars

(***************************************************************************)
(* C3: for every name not starting with '_', not "default" and not in      *)
(* profiles, add_profile(name) appends name to the list (earlier names     *)
(* kept, in order), and a second add_profile(name) fails with              *)
(* AlreadyExists and leaves the list unchanged.                            *)
(***************************************************************************)
C3_AddProfile ==
    [][(/\ last'.op = "add_profile"
        /\ ~Reserved(last'.name)
        /\ last'.name # Default
        /\ ~Contains(Listed(dirs, files), last'.name))
        => /\ last'.exc = "none"
           /\ Listed(dirs', files') = Append(Listed(dirs, files), last'.name)
           /\ Persisted(files') = Listed(dirs', files')
           /\ LET again == add_profile(FSof(dirs', files'), last'.name)
              IN  /\ AlreadyExists(again)
                  /\ again.fs.files = files']_vars

C3_Witness ==
    /\ last.op = "add_profile"
    /\ last.name = Generated(2)
    /\ last.exc = "none"
    /\ last.existed
    /\ Persisted(files) = <<Default, Generated(1), Generated(2)>>

(***************************************************************************)
(* C4: after any sequence of calls from a fresh config home the persisted  *)
(* profiles list contains "default".  remove_profile("default") breaks it. *)
(***************************************************************************)
C4_DefaultAlwaysListed ==
    SettingPath \in DOMAIN files => Contains(Persisted(files), Default)

(***************************************************************************)
(* C5: round trip: for every name n not starting with '_' and every        *)
(* document D, update_named_profile(n, D) followed by get_named_profile(n) *)
(* returns exactly D, whatever n held before.                              *)
(***************************************************************************)
C5_RoundTrip ==
    [][(/\ last'.op \in {"update_named_profile", "update_default_profile"}
        /\ ~Reserved(last'.name))
        => /\ last'.exc = "none"
           /\ LET read == get_named_profile(FSof(dirs', files'),
                                            last'.name, TRUE)
              IN  /\ read.exc = "none"
                  /\ read.doc = last'.data]_vars

\* a read that follows an update of a document that held something else
C5_Witness ==
    /\ last.op = "update_named_profile"
    /\ last.name = Generated(1)
    /\ last.existed
    /\ last.data = DocTest
    /\ get_named_profile(FS, last.name, TRUE).doc = DocTest

(***************************************************************************)
(* C6: for every name n not starting with '_' whose document does not      *)
(* exist yet, get_named_profile(n) returns the empty document, afterwards  *)
(* the backing file of n exists, and a repeated get_named_profile(n)       *)
(* returns the empty document again.                                       *)
(***************************************************************************)
C6_ReadCreatesEmpty ==
    [][(/\ last'.op \in {"get_named_profile", "get_default_profile"}
        /\ ~Reserved(last'.name)
        /\ ProfilePath(last'.name) \notin DOMAIN files)
        => /\ last'.exc = "none"
           /\ last'.doc = EmptyDoc
           /\ TestHome \in dirs'
           /\ ProfilePath(last'.name) \in DOMAIN files'
           /\ LET again == get_named_profile(FSof(dirs', files'),
                                             last'.name, TRUE)
              IN  /\ again.exc = "none"
                  /\ again.doc = EmptyDoc]_vars

C6_Witness ==
    /\ last.op = "get_named_profile"
    /\ last.name = Generated(1)
    /\ ~last.existed
    /\ last.doc = EmptyDoc
    /\ ProfilePath(Generated(1)) \in DOMAIN files

(***************************************************************************)
(* C7: for every name starting with '_', the public get_named_profile      *)
(* fails with InvalidName, returns no document, and neither creates nor    *)
(* modifies any file: the settings file is not reached through it.         *)
(***************************************************************************)
C7_ReservedRead ==
    [][last'.op = "get_named_profile" /\ Reserved(last'.name)
        => /\ InvalidName(last')
           /\ last'.doc = EmptyDoc
           /\ files' = files
           /\ dirs' = dirs]_vars

C7_Witness ==
    /\ last.op = "get_named_profile"
    /\ last.name = Setting
    /\ InvalidName(last)
    /\ SettingPath \notin DOMAIN files

(***************************************************************************)
(* C8: for every name x that is not in the profiles list,                  *)
(* remove_profile(x) fails with NotFound and leaves the settings (the      *)
(* profiles list and current_profile) unchanged.                           *)
(***************************************************************************)
C8_RemoveMissing ==
    [][last'.op = "remove_profile" /\ ~Contains(Listed(dirs, files), last'.name)
        => /\ NotFound(last')
           /\ Listed(dirs', files') = Listed(dirs, files)
           /\ Active(dirs', files') = Active(dirs, files)
           /\ (SettingPath \in DOMAIN files => files' = files)]_vars

C8_Witness ==
    /\ last.op = "remove_profile"
    /\ last.name = Generated(1)
    /\ NotFound(last)
    /\ Persisted(files) = <<Default, Generated(2)>>

(***************************************************************************)
(* C9, as stated: add_profile(name) fails with InvalidName when name       *)
(* starts with '_' or equals "default", and leaves the list unchanged.     *)
(* The membership test comes first, so "default" is refused as already     *)
(* existing whenever it is in the list.                                    *)
(***************************************************************************)
C9_AddInvalidName ==
    [][last'.op = "add_profile" /\ (Reserved(last'.name) \/ last'.name = Default)
        => /\ InvalidName(last')
           /\ Listed(dirs', files') = Listed(dirs, files)]_vars

(***************************************************************************)
(* C9, amended: add_profile(name) with a name that starts with '_' or      *)
(* equals "default" raises a StorageException and leaves the profiles list *)
(* unchanged; the failure is AlreadyExists when name is in the list        *)
(* and InvalidName when it is not.                                         *)
(***************************************************************************)
C9_AddRefused ==
    [][last'.op = "add_profile" /\ (Reserved(last'.name) \/ last'.name = Default)
        => /\ IF Contains(Listed(dirs, files), last'.name)
              THEN AlreadyExists(last')
              ELSE InvalidName(last')
           /\ Listed(dirs', files') = Listed(dirs, files)
           /\ (SettingPath \in DOMAIN files => files' = files)]_vars

C9_Witness ==
    /\ last.op = "add_profile"
    /\ last.name = Default
    /\ AlreadyExists(last)
    /\ Persisted(files) = <<Default, Generated(1)>>

(***************************************************************************)
(* C10: on a fresh config home, with no settings file yet, the first       *)
(* settings access writes the defaults: get_active_profile_name() returns  *)
(* "default", list_profiles() returns exactly ["default"], and the         *)
(* settings file exists afterwards.                                        *)
(***************************************************************************)
C10_FreshDefaults ==
    [][(/\ SettingPath \notin DOMAIN files
        /\ last'.op \in {"get_active_profile_name", "list_profiles"})
        => /\ last'.exc = "none"
           /\ (last'.op = "get_active_profile_name" => last'.ret = Str(Default))
           /\ (last'.op = "list_profiles" => last'.ret = List(<<Default>>))
           /\ SettingPath \in DOMAIN files'
           /\ toml_load(files'[SettingPath]) = default_values
           /\ Active(dirs', files') = Str(Default)
           /\ Listed(dirs', files') = <<Default>>]_vars

C10_Witness ==
    /\ last.op = "list_profiles"
    /\ ~last.existed
    /\ last.ret = List(<<Default>>)
    /\ SettingPath \in DOMAIN files

(***************************************************************************)
(* C11: for every name starting with '_', set_current_profile(name) fails  *)
(* with InvalidName and leaves the persisted current_profile unchanged;    *)
(* in no reachable state does current_profile start with '_'.              *)
(***************************************************************************)
C11_ReservedCurrent ==
    [][/\ (last'.op = "set_current_profile" /\ Reserved(last'.name))
            => /\ InvalidName(last')
               /\ Active(dirs', files') = Active(dirs, files)
               /\ (SettingPath \in DOMAIN files => files' = files)
       /\ ~Reserved(Active(dirs', files').items[1])]_vars

C11_Witness ==
    /\ last.op = "set_current_profile"
    /\ last.name = Hidden
    /\ InvalidName(last)
    /\ last.existed
    /\ Active(dirs, files) = Str(Default)

(***************************************************************************)
(* C12: setting the active profile to a name that is not in the profiles   *)
(* list raises StorageException.  set_current_profile never looks at the   *)
(* list.                                                                   *)
(***************************************************************************)
C12_UnlistedActiveRaises ==
    [][(last'.op = "set_current_profile" /\ ~Contains(Listed(dirs, files), last'.name))
        => last'.exc = "StorageException"]_vars

(***************************************************************************)
(* C13: whenever a config home is resolved, get_config_home creates it     *)
(* together with all its missing parent directories and returns it; a      *)
(* second call returns the same path and changes nothing.  The code        *)
(* creates one directory level only.                                       *)
(***************************************************************************)
C13_HomeCreated ==
    [][(last'.op = "get_config_home" /\ home_path(FS).exc = "none")
        => /\ last'.exc = "none"
           /\ last'.ret = home_path(FS).ret
           /\ PathOf(last') \in dirs'
           /\ Parent(PathOf(last')) \in dirs'
           /\ LET again == get_config_home(FSof(dirs', files'))
              IN  /\ again.exc = "none"
                  /\ again.ret = last'.ret
                  /\ again.fs = FSof(dirs', files')]_vars

(***************************************************************************)
(* C14: get_config_home resolves by first match: <override>/goto-cd when   *)
(* XDG_CONFIG_HOME is set (to a non-empty value), else ~/.config/goto-cd   *)
(* when ~/.config exists, else ~/.goto-cd.  With the variable unset the    *)
(* code raises TypeError before it chooses.                                *)
(***************************************************************************)
C14_FirstMatch ==
    [][last'.op = "get_config_home"
        => /\ home_path(FS).exc = "none"
           /\ PathOf(home_path(FS)) =
                 IF truthy(xdg_home) THEN join(xdg_home.items[1], GotoCd)
                 ELSE IF dot_config \in dirs THEN join(dot_config, GotoCd)
                 ELSE dot_goto
           /\ last'.exc = "none" => last'.ret = home_path(FS).ret]_vars

(***************************************************************************)
(* C15: in every reachable state the names of the persisted profiles list  *)
(* are pairwise distinct and none of them starts with '_'.                 *)
(***************************************************************************)
C15_DistinctPublicNames ==
    SettingPath \in DOMAIN files =>
        \A i, j \in 1..Len(Persisted(files)) :
            /\ ~Reserved(Persisted(files)[i])
            /\ i # j => Persisted(files)[i] # Persisted(files)[j]

\* a full list, after a refused attempt to add a reserved name
C15_Witness ==
    /\ last.op = "add_profile"
    /\ last.name = Hidden
    /\ last.exc = "StorageException"
    /\ SettingPath \in DOMAIN files
    /\ Len(Persisted(files)) = NumNames + 1

(***************************************************************************)
(* C16: for every name in profiles other than "default",                   *)
(* remove_profile(name) removes exactly that name from the list (the other *)
(* names stay, in order) and persists it; no profile document is deleted   *)
(* or altered, so get_named_profile(name) afterwards still returns what    *)
(* the document of name held.                                              *)
(***************************************************************************)
C16_RemoveListed ==
    [][(/\ last'.op = "remove_profile"
        /\ last'.name # Default
        /\ Contains(Listed(dirs, files), last'.name))
        => /\ last'.exc = "none"
           /\ Listed(dirs', files') =
                 SelectSeq(Listed(dirs, files), LAMBDA n : n # last'.name)
           /\ Persisted(files') = Listed(dirs', files')
           /\ DOMAIN files' = DOMAIN files
           /\ \A f \in DOMAIN files \ {SettingPath} : files'[f] = files[f]
           /\ get_named_profile(FSof(dirs', files'), last'.name, TRUE).doc =
                 IF ProfilePath(last'.name) \in DOMAIN files
                 THEN toml_load(files[ProfilePath(last'.name)])
                 ELSE EmptyDoc]_vars

C16_Witness ==
    /\ last.op = "remove_profile"
    /\ last.name = Generated(1)
    /\ last.exc = "none"
    /\ Persisted(files) = <<Default, Generated(2)>>
    /\ ProfilePath(Generated(1)) \in DOMAIN files
    /\ get_named_profile(FS, Generated(1), TRUE).doc = DocTest

(***************************************************************************)
(* C19, as stated: for every name n that update_named_profile accepts and  *)
(* every document D, update_named_profile(n, D) changes the document of n  *)
(* only: the other files, the profiles list and current_profile are as     *)
(* before.  For n = "_setting" the document of n is the settings file.     *)
(***************************************************************************)
C19_UpdateFrame ==
    [][last'.op = "update_named_profile"
        => /\ last'.exc = "none"
           /\ DOMAIN files' = DOMAIN files \cup {ProfilePath(last'.name)}
           /\ \A f \in DOMAIN files \ {ProfilePath(last'.name)} : files'[f] = files[f]
           /\ Listed(dirs', files') = Listed(dirs, files)
           /\ Active(dirs', files') = Active(dirs, files)]_vars

(***************************************************************************)
(* C19, amended: the same for every name n whose file n.toml is not the    *)
(* settings file _setting.toml.                                            *)
(***************************************************************************)
C19_UpdateFrameOfProfiles ==
    [][(last'.op = "update_named_profile" /\ ProfilePath(last'.name) # SettingPath)
        => /\ last'.exc = "none"
           /\ DOMAIN files' = DOMAIN files \cup {ProfilePath(last'.name)}
           /\ \A f \in DOMAIN files \ {ProfilePath(last'.name)} : files'[f] = files[f]
           /\ files'[ProfilePath(last'.name)] = toml_dump(last'.data)
           /\ Listed(dirs', files') = Listed(dirs, files)
           /\ Active(dirs', files') = Active(dirs, files)]_vars

\* an update of the document of the active profile p1, with p2 listed too
C19_Witness ==
    /\ last.op = "update_named_profile"
    /\ last.name = Generated(1)
    /\ SettingPath \in DOMAIN files
    /\ Active(dirs, files) = Str(Generated(1))
    /\ Persisted(files) = <<Default, Generated(1), Generated(2)>>
    /\ ProfilePath(Hidden) \in DOMAIN files

(***************************************************************************)
(* C20: add_profile and remove_profile never change current_profile,       *)
(* whether they succeed or fail; remove_profile of the active profile      *)
(* leaves current_profile naming it.                                       *)
(***************************************************************************)
C20_CurrentKept ==
    [][last'.op \in {"add_profile", "remove_profile"}
        => Active(dirs', files') = Active(dirs, files)]_vars

\* the active profile p1 has just been removed
C20_Witness ==
    /\ last.op = "remove_profile"
    /\ last.name = Generated(1)
    /\ last.exc = "none"
    /\ Active(dirs, files) = Str(Generated(1))
    /\ ~Contains(Persisted(files), Generated(1))

\* the teleports table stored in the document of the active profile
Stored(d, f) ==
    LET fpath == ProfilePath(Active(d, f).items[1])
    IN  IF fpath \in DOMAIN f
        THEN dict_get(toml_load(f[fpath]), "teleports", Table(<<>>)).items
        ELSE <<>>

TeleportNotFound(r) == r.exc = "StorageException" /\ r.msg = "NotFound"

(***************************************************************************)
(* C17: for every non-empty alias and every target directory that exists,  *)
(* after set_teleport(alias, dir) get_teleport_target(alias) returns the   *)
(* absolute path of dir and list_teleports() includes alias; an alias      *)
(* that was there keeps its place and gets the new target, the other       *)
(* entries are kept, and no alias is listed twice.                         *)
(***************************************************************************)
C17_SetTeleport ==
    [][(/\ last'.op = "set_teleport"
        /\ last'.name # <<>>
        /\ abspath(PathOf([ret |-> last'.data["target_dir"]])) \in dirs)
        => LET before == Stored(dirs, files)
               after == Stored(dirs', files')
               path == abspath(PathOf([ret |-> last'.data["target_dir"]]))
               fs2 == FSof(dirs', files')
           IN  /\ last'.exc = "none"
               /\ get_teleport_target(fs2, last'.name).ret = Str(path)
               /\ Contains(list_teleports(fs2).ret.items, last'.name)
               /\ list_teleports(fs2).ret.items = Aliases(after)
               /\ Aliases(after) =
                     IF Contains(Aliases(before), last'.name)
                     THEN Aliases(before)
                     ELSE Append(Aliases(before), last'.name)
               /\ \A i, j \in 1..Len(Aliases(after)) :
                     i # j => Aliases(after)[i] # Aliases(after)[j]
               /\ \A i \in 1..Len(Aliases(before)) :
                     Aliases(before)[i] # last'.name
                        => Target(after, Aliases(before)[i]) =
                           Target(before, Aliases(before)[i])]_vars

\* "a" was set before "abcd" and has just been set again, to './'
C17_Witness ==
    /\ last.op = "set_teleport"
    /\ last.name = <<"a">>
    /\ last.data = TargetArg(<<".", "/">>)
    /\ last.exc = "none"
    /\ Stored(dirs, files) = <<<<"a">>, Cwd, abcd, XdgBase>>

(***************************************************************************)
(* C18: after remove_teleport(alias) of a present alias, list_teleports()  *)
(* no longer includes alias and get_teleport_target(alias) fails with      *)
(* NotFound; remove_teleport and get_teleport_target of an absent alias    *)
(* fail with NotFound and leave the teleports unchanged.                   *)
(***************************************************************************)
C18_RemoveTeleport ==
    [][/\ (last'.op = "remove_teleport"
              /\ Contains(Aliases(Stored(dirs, files)), last'.name))
            => /\ last'.exc = "none"
               /\ Stored(dirs', files') = Delete(Stored(dirs, files), last'.name)
               /\ ~Contains(list_teleports(FSof(dirs', files')).ret.items, last'.name)
               /\ TeleportNotFound(get_teleport_target(FSof(dirs', files'), last'.name))
       /\ (last'.op \in {"remove_teleport", "get_teleport_target"}
              /\ ~Contains(Aliases(Stored(dirs, files)), last'.name))
            => /\ TeleportNotFound(last')
               /\ Stored(dirs', files') = Stored(dirs, files)]_vars

\* "a" has just been removed and "abcd" is left
C18_Witness ==
    /\ last.op = "remove_teleport"
    /\ last.name = <<"a">>
    /\ last.exc = "none"
    /\ Stored(dirs, files) = <<abcd, XdgBase>>

====
